---- MODULE Spec2Model ----
(***************************************************************************)
(* Model of dallinger/db.py: the scoped session (one thread's SQLAlchemy   *)
(* session with its info['outbox']), the session event hooks after_begin,   *)
(* after_soft_rollback and after_commit, queue_message, the context manager *)
(* sessions_scope, and the wrappers scoped_session_decorator and            *)
(* serialized.  One call of a wrapped function is followed from entry to    *)
(* the point where control is back at the caller.                           *)
(***************************************************************************)
EXTENDS Integers, Sequences, FiniteSets

\* ---------------------------------------------------------------- bounds
\* Pairs the unit of work may enqueue during one call of a wrapper.
MaxEnq == 2
\* Calls of session.commit() the unit of work makes during one call of a wrapper.
MaxWorkCommits == 1
\* With several threads: pairs one thread may enqueue, and commits it may make.
MaxThreadEnq == 2
MaxThreadCommits == 1

\* ------------------------------------------------------ program constants
\* attempts = 100 (serialized.wrapper)
MaxAttempts == 100

\* Inputs of the unit of work: the channel it uses for its n-th message
\* (messages alternate between two channels) and the values it may return.
ChannelOf(n) == IF n % 2 = 1 THEN "alerts" ELSE "jobs"
Results == {"r1", "r2"}
\* The threads that use the module-level session concurrently.
Threads == {1, 2}
\* The wrapper's return value when it falls off the end of the while loop.
None == "None"

\* Exceptions.  Conflict is an OperationalError whose orig is a
\* TransactionRollbackError; OperationalOther is any other OperationalError;
\* DomainError is any other Exception raised by the unit of work;
\* PublishError is raised by redis.publish; RollbackError by
\* local_session.rollback(); BudgetExhausted is the Exception of line 126.
NoExc == "NoExc"
Conflict == "Conflict"
OperationalOther == "OperationalOther"
DomainError == "DomainError"
PublishError == "PublishError"
RollbackError == "RollbackError"
BudgetExhausted == "BudgetExhausted"

WorkErrors == {Conflict, OperationalOther, DomainError}
CommitErrors == {Conflict, OperationalOther}

VARIABLES
    \* control
    pc,          \* position of the call in db.py
    mode,        \* which wrapper was called: "none", "serialized", "scoped"
    commitFlag,  \* the commit argument of the running sessions_scope
    attempts,    \* serialized.wrapper's local counter
    ret,         \* who called session.commit(): "scope" or "work"
    pubIdx,      \* position of after_commit's for loop in the outbox
    exc,         \* exception in flight (NoExc when none)
    pending,     \* value returned by func, held while the with block exits
    outcome,     \* how the call ended: "running", "returned", "raised"
    result,      \* value the wrapper returned
    \* the thread's session
    txn,         \* "idle": no connection yet; "active": after_begin fired;
                 \* "committed": database commit done, after_commit running
    hasOutbox,   \* 'outbox' in session.info
    outbox,      \* session.info['outbox']
    isolation,   \* isolation level of the session's connection
    \* the outside world
    published,   \* redis.publish calls that were made, in order
    nextId,      \* payload of the next enqueued message
    \* observation
    invocations, \* calls of func made by the wrapper
    entered,     \* entries into sessions_scope
    removed,     \* calls of local_session.remove()
    scopeLog,    \* commit/rollback/remove calls of the current scope, in order
    logged,      \* exception passed to logger.exception by the current scope
    origExc,     \* exception raised inside the current scope (by func or commit)
    txnEnq,      \* pairs enqueued since after_begin of the current transaction
    sessEnq,     \* payloads enqueued since the last commit/rollback/remove
    commitFrom,  \* txn at the moment the running commit was requested
    commitPub,   \* pairs published by the running commit
    doomed,      \* payloads enqueued in a transaction that ended rolled back
    attemptIds,  \* payloads enqueued by the current invocation of func
    workCommits, \* commits requested by func itself during this call
    scopeCommits, \* commits by sessions_scope that completed
    fatalAt,     \* invocation number at which a non-conflict error was raised
    workResult,  \* value returned by the current invocation of func
    conflicts,   \* serialization conflicts raised during this call
    workRolledBack, \* the current invocation of func called session.rollback()
    rollbackFailed, \* local_session.rollback() raised in the current scope
    connected,   \* calls of session.connection made by the wrapper
    \* several threads on the scoped session
    registry,    \* the sessions of the scoped_session registry: for each, whether
                 \* info has 'outbox', the list, and the transaction state
    threads,     \* per thread: where it is (running, or inside the for loop of
                 \* after_commit), the loop position, enqueues and commits made,
                 \* and two observations: rb, the number of its next message
                 \* at its last rollback (0 when it made none since the last
                 \* release), and pubs, the messages its current or last commit
                 \* has published
    tPublished,  \* observation: <<t, message>> for each redis.publish made by a
                 \* commit of thread t
    tDiscarded   \* observation: <<t, message>> for each pair a listener or
                 \* remove() run by thread t dropped from an outbox

ctlVars == <<pc, mode, commitFlag, attempts, ret, pubIdx, exc, pending, outcome,
             result>>
sessVars == <<txn, hasOutbox, outbox, isolation>>
worldVars == <<published, nextId>>
obsVars == <<invocations, entered, removed, scopeLog, logged, origExc, txnEnq,
             sessEnq, commitFrom, commitPub, doomed, attemptIds, workCommits, scopeCommits, fatalAt, workResult>>
obs2Vars == <<conflicts, workRolledBack, rollbackFailed>>
obs3Vars == <<connected>>
thrVars == <<registry, threads, tPublished, tDiscarded>>
vars == <<ctlVars, sessVars, worldVars, obsVars, obs2Vars, obs3Vars, thrVars>>

\* ------------------------------------------------------------ pure helpers
Payloads(s) == {s[i][2] : i \in 1..Len(s)}

\* session.info.get('outbox', ())
OutboxOrEmpty(has, ob) == IF has THEN ob ELSE <<>>

\* (variant: the new pair replaces the list)
queue_message_overwrite(has, ob, channel, message) == << <<channel, message>> >>

\* (variant: the new pair is put at the head of the list)
queue_message_prepend(has, ob, channel, message) ==
    << <<channel, message>> >> \o OutboxOrEmpty(has, ob)

\* queue_message: create the list when missing, then append the pair.
queue_message(has, ob, channel, message) ==
    Append(OutboxOrEmpty(has, ob), <<channel, message>>)

\* after_begin: session.info['outbox'] = []
after_begin(ob) == <<>>

\* (variant: the listener leaves the list alone)
after_soft_rollback_keep(ob) == ob

\* after_soft_rollback: session.info['outbox'] = []
after_soft_rollback(ob) == <<>>

\* after_commit leaves session.info untouched.
after_commit_outbox(ob) == ob

\* (variant: while attempts >= 0)
LoopCond_Geq(a) == a >= 0

\* while attempts > 0
LoopCond(a) == a > 0

\* isinstance(exc, OperationalError)
IsOperationalError(e) == e \in {Conflict, OperationalOther}

\* (variant: the orig of the error is not inspected)
IsConflict_Any(e) == TRUE

\* isinstance(exc.orig, TransactionRollbackError)
IsConflict(e) == e = Conflict

\* (variant: except OperationalError as e)
ScopeCatches_Operational(e) == IsOperationalError(e)

\* except Exception as e (sessions_scope)
ScopeCatches(e) == e # NoExc

\* (variant: the wrapper enters sessions_scope without commit=True)
ScopeCommitArg_Default(m) == FALSE

\* (variant: every wrapper asks sessions_scope to commit)
ScopeCommitArg_Always(m) == TRUE

\* the commit argument the wrappers pass to sessions_scope
ScopeCommitArg(m) == m = "serialized"

\* ------------------------------------------------------------------- init
Init ==
    /\ pc = "caller"
    /\ mode = "none"
    /\ commitFlag = FALSE
    /\ attempts = 0
    /\ ret = "scope"
    /\ pubIdx = 1
    /\ exc = NoExc
    /\ pending = None
    /\ outcome = "running"
    /\ result = None
    /\ txn = "idle"
    /\ hasOutbox = FALSE
    /\ outbox = <<>>
    /\ isolation = "default"
    /\ published = <<>>
    /\ nextId = 1
    /\ invocations = 0
    /\ entered = 0
    /\ removed = 0
    /\ scopeLog = <<>>
    /\ logged = NoExc
    /\ origExc = NoExc
    /\ txnEnq = <<>>
    /\ sessEnq = {}
    /\ commitFrom = "idle"
    /\ commitPub = <<>>
    /\ doomed = {}
    /\ attemptIds = {}
    /\ workCommits = 0
    /\ scopeCommits = 0
    /\ fatalAt = 0
    /\ workResult = None
    /\ conflicts = 0
    /\ workRolledBack = FALSE
    /\ rollbackFailed = FALSE
    /\ connected = 0
    /\ registry = [s \in Threads |-> [has |-> FALSE, ob |-> <<>>, txn |-> "idle"]]
    /\ threads = [t \in Threads |->
                      [pc |-> "run", idx |-> 0, enq |-> 0, commits |-> 0,
                       rb |-> 0, pubs |-> <<>>]]
    /\ tPublished = {}
    /\ tDiscarded = {}


\* (variant: no after_begin listener is registered, the transaction begins
\* without touching session.info)
BeginIfIdle_NoReset(level) ==
    IF txn = "idle"
    THEN /\ txn' = "active"
         /\ isolation' = level
         /\ txnEnq' = <<>>
         /\ UNCHANGED <<outbox, hasOutbox>>
    ELSE /\ UNCHANGED <<txn, outbox, hasOutbox, isolation, txnEnq>>

\* ------------------------------------------------ session-level effects
\* The session acquires its connection: the transaction begins and the
\* after_begin listener runs.  A session that already has its connection
\* returns it: no event, and execution options are ignored.
BeginIfIdle(level) ==
    IF txn = "idle"
    THEN /\ txn' = "active"
         /\ outbox' = after_begin(outbox)
         /\ hasOutbox' = TRUE
         /\ isolation' = level
         /\ txnEnq' = <<>>
    ELSE /\ UNCHANGED <<txn, outbox, hasOutbox, isolation, txnEnq>>

\* session.rollback() that succeeds: the transaction is rolled back, the
\* after_soft_rollback listener runs, a new transaction waits for its
\* connection.
RollbackEffect ==
    /\ txn' = "idle"
    /\ outbox' = after_soft_rollback(outbox)
    /\ hasOutbox' = TRUE
    /\ doomed' = doomed \cup sessEnq
    /\ sessEnq' = {}
    /\ txnEnq' = <<>>

\* ------------------------------------------------------------ the caller
CallSerialized ==
    /\ pc = "caller"
    /\ mode' = "serialized"
    /\ attempts' = MaxAttempts
    /\ pc' = "loop"
    /\ UNCHANGED <<commitFlag, ret, pubIdx, exc, pending, outcome, result>>
    /\ UNCHANGED <<sessVars, worldVars, obsVars>>
    /\ UNCHANGED obs2Vars
    /\ UNCHANGED thrVars
    /\ UNCHANGED obs3Vars

CallScoped ==
    /\ pc = "caller"
    /\ mode' = "scoped"
    /\ pc' = "scope_enter"
    /\ UNCHANGED <<commitFlag, attempts, ret, pubIdx, exc, pending, outcome,
                   result>>
    /\ UNCHANGED <<sessVars, worldVars, obsVars>>
    /\ UNCHANGED obs2Vars
    /\ UNCHANGED thrVars
    /\ UNCHANGED obs3Vars

\* ----------------------------------------------------- serialized.wrapper
\* while attempts > 0; falling off the loop returns None.
WhileTest ==
    /\ pc = "loop"
    /\ IF LoopCond(attempts)
       THEN /\ pc' = "connect"
            /\ UNCHANGED <<outcome, result>>
       ELSE /\ pc' = "done"
            /\ outcome' = "returned"
            /\ result' = None
    /\ UNCHANGED <<mode, commitFlag, attempts, ret, pubIdx, exc, pending>>
    /\ UNCHANGED <<sessVars, worldVars, obsVars>>
    /\ UNCHANGED obs2Vars
    /\ UNCHANGED thrVars
    /\ UNCHANGED obs3Vars

\* session.connection(execution_options={'isolation_level': 'SERIALIZABLE'})
ConnectOK ==
    /\ pc = "connect"
    /\ BeginIfIdle("SERIALIZABLE")
    /\ pc' = "scope_enter"
    /\ UNCHANGED <<mode, commitFlag, attempts, ret, pubIdx, exc, pending,
                   outcome, result>>
    /\ UNCHANGED <<worldVars, invocations, entered, removed, scopeLog, logged,
                   origExc, sessEnq, commitFrom, commitPub, doomed, attemptIds,
                   workCommits, scopeCommits, fatalAt, workResult>>
    /\ UNCHANGED obs2Vars
    /\ UNCHANGED thrVars
    /\ connected' = connected + 1

\* session.connection raises: the database cannot be reached.
ConnectFail ==
    /\ pc = "connect"
    /\ exc' = OperationalOther
    /\ pc' = "except"
    /\ UNCHANGED <<mode, commitFlag, attempts, ret, pubIdx, pending, outcome,
                   result>>
    /\ UNCHANGED <<sessVars, worldVars, obsVars>>
    /\ UNCHANGED obs2Vars
    /\ UNCHANGED thrVars
    /\ connected' = connected + 1

\* (variant: the except clause re-raises whatever it caught)
HandlerVerdict_NoRetry(e, a) == "raise"

\* (variant: except Exception, retried whatever the error)
HandlerVerdict_RetryAll(e, a) == IF a > 0 THEN "retry" ELSE "exhausted"

\* What the except clause of the wrapper does with the exception in flight:
\* "retry", "exhausted" (line 126), or "raise" (line 130 and anything that
\* is not an OperationalError).
HandlerVerdict(e, a) ==
    IF IsOperationalError(e)
    THEN IF IsConflict(e)
         THEN IF a > 0 THEN "retry" ELSE "exhausted"
         ELSE "raise"
    ELSE "raise"

\* (variant: the counter is left as it is)
Decrement_Skip(a) == a

\* attempts -= 1
Decrement(a) == a - 1

Except ==
    /\ pc = "except"
    /\ LET v == HandlerVerdict(exc, attempts) IN
       /\ attempts' = IF v = "retry" THEN Decrement(attempts) ELSE attempts
       /\ exc' = IF v = "retry" THEN NoExc
                 ELSE IF v = "exhausted" THEN BudgetExhausted ELSE exc
       /\ pc' = IF v = "retry" THEN "loop" ELSE "done"
       /\ outcome' = IF v = "retry" THEN outcome ELSE "raised"
    /\ UNCHANGED <<mode, commitFlag, ret, pubIdx, pending, result>>
    /\ UNCHANGED <<sessVars, worldVars, obsVars>>
    /\ UNCHANGED obs2Vars
    /\ UNCHANGED thrVars
    /\ UNCHANGED obs3Vars


\* --------------------------------------------------------- sessions_scope
\* with sessions_scope(session[, commit=True]): the generator runs to its
\* yield and the body of the with statement calls func.
ScopeEnter ==
    /\ pc = "scope_enter"
    /\ commitFlag' = ScopeCommitArg(mode)
    /\ entered' = entered + 1
    /\ invocations' = invocations + 1
    /\ pc' = "work"
    \* locals and observations of the previous scope are gone
    /\ pending' = None
    /\ ret' = "scope"
    /\ pubIdx' = 1
    /\ scopeLog' = <<>>
    /\ logged' = NoExc
    /\ origExc' = NoExc
    /\ attemptIds' = {}
    /\ commitFrom' = "idle"
    /\ commitPub' = <<>>
    /\ workResult' = None
    /\ UNCHANGED <<mode, attempts, exc, outcome, result>>
    /\ UNCHANGED <<sessVars, worldVars, removed, txnEnq, sessEnq, doomed,
                   workCommits, scopeCommits, fatalAt>>
    /\ workRolledBack' = FALSE
    /\ rollbackFailed' = FALSE
    /\ UNCHANGED conflicts
    /\ UNCHANGED thrVars
    /\ UNCHANGED obs3Vars

\* ----------------------------------------------------- the unit of work
\* func calls queue_message(channel, message).
WorkQueue ==
    /\ pc = "work"
    /\ nextId <= MaxEnq
    /\ outbox' = queue_message(hasOutbox, outbox, ChannelOf(nextId), nextId)
    /\ hasOutbox' = TRUE
    /\ nextId' = nextId + 1
    /\ txnEnq' = IF txn = "active"
                 THEN Append(txnEnq, <<ChannelOf(nextId), nextId>>) ELSE txnEnq
    /\ sessEnq' = sessEnq \cup {nextId}
    /\ attemptIds' = attemptIds \cup {nextId}
    /\ UNCHANGED <<pc, mode, commitFlag, attempts, ret, pubIdx, exc, pending,
                   outcome, result>>
    /\ UNCHANGED <<txn, isolation, published>>
    /\ UNCHANGED <<invocations, entered, removed, scopeLog, logged, origExc,
                   commitFrom, commitPub, doomed, workCommits,
                   scopeCommits, fatalAt, workResult>>
    /\ UNCHANGED obs2Vars
    /\ UNCHANGED thrVars
    /\ UNCHANGED obs3Vars

\* func queries or flushes: the session acquires its connection if it has
\* none yet.
WorkDbUse ==
    /\ pc = "work"
    /\ txn = "idle"
    /\ BeginIfIdle("default")
    /\ UNCHANGED <<pc, mode, commitFlag, attempts, ret, pubIdx, exc, pending,
                   outcome, result>>
    /\ UNCHANGED <<worldVars, invocations, entered, removed, scopeLog, logged,
                   origExc, sessEnq, commitFrom, commitPub, doomed, attemptIds,
                   workCommits, scopeCommits, fatalAt, workResult>>
    /\ UNCHANGED obs2Vars
    /\ UNCHANGED thrVars
    /\ UNCHANGED obs3Vars

\* func calls session.rollback().
WorkRollback ==
    /\ pc = "work"
    /\ RollbackEffect
    /\ UNCHANGED <<pc, mode, commitFlag, attempts, ret, pubIdx, exc, pending,
                   outcome, result>>
    /\ UNCHANGED <<isolation, worldVars>>
    /\ UNCHANGED <<invocations, entered, removed, scopeLog, logged, origExc,
                   commitFrom, commitPub, attemptIds, workCommits,
                   scopeCommits, fatalAt, workResult>>
    /\ workRolledBack' = TRUE
    /\ UNCHANGED <<conflicts, rollbackFailed>>
    /\ UNCHANGED thrVars
    /\ UNCHANGED obs3Vars

\* (variant: the publishing listener is registered on before_commit)
PublishHook_Before == "before_commit"

\* @event.listens_for(session, 'after_commit'): the event whose listener
\* publishes the outbox.
PublishHook == "after_commit"

\* Where session.commit() goes first: to the database commit when the
\* listener runs after it, to the listener otherwise.
CommitStart == IF PublishHook = "after_commit" THEN "commit_db" ELSE "publish"

\* func calls session.commit().
WorkCommit ==
    /\ pc = "work"
    /\ ret' = "work"
    /\ commitFrom' = txn
    /\ workCommits < MaxWorkCommits
    /\ workCommits' = workCommits + 1
    /\ pc' = CommitStart
    /\ UNCHANGED <<mode, commitFlag, attempts, pubIdx, exc, pending, outcome,
                   result>>
    /\ UNCHANGED <<sessVars, worldVars>>
    /\ UNCHANGED <<invocations, entered, removed, scopeLog, logged, origExc,
                   txnEnq, sessEnq, commitPub, doomed, attemptIds, scopeCommits, fatalAt, workResult>>
    /\ UNCHANGED obs2Vars
    /\ UNCHANGED thrVars
    /\ UNCHANGED obs3Vars

\* if commit: local_session.commit(): the statement after the yield, up to
\* the call of commit().
ScopeCommit ==
    IF commitFlag
    THEN /\ scopeLog' = Append(scopeLog, "commit")
         /\ ret' = "scope"
         /\ commitFrom' = txn
         /\ pc' = CommitStart
    ELSE /\ pc' = "scope_finally"
         /\ UNCHANGED <<scopeLog, ret, commitFrom>>

\* func returns v: the generator resumes after its yield (line 56).
WorkReturn(v) ==
    /\ pc = "work"
    /\ pending' = v
    /\ workResult' = v
    /\ ScopeCommit
    /\ UNCHANGED <<mode, commitFlag, attempts, pubIdx, exc, outcome, result>>
    /\ UNCHANGED <<sessVars, worldVars>>
    /\ UNCHANGED <<invocations, entered, removed, logged, origExc, txnEnq,
                   sessEnq, commitPub, doomed, attemptIds, workCommits,
                   scopeCommits, fatalAt>>
    /\ UNCHANGED obs2Vars
    /\ UNCHANGED thrVars
    /\ UNCHANGED obs3Vars

\* except Exception as e: logger.exception(...): the clause that catches
\* exception e raised inside the try block, up to the call of rollback().
ScopeExcept(e) ==
    IF ScopeCatches(e)
    THEN /\ logged' = e
         /\ pc' = "scope_rollback"
    ELSE /\ pc' = "scope_finally"
         /\ UNCHANGED logged

\* func raises e: the exception is thrown into the generator at its yield.
WorkRaise(e) ==
    /\ pc = "work"
    /\ exc' = e
    /\ fatalAt' = IF e = Conflict THEN fatalAt ELSE invocations
    /\ origExc' = e
    /\ ScopeExcept(e)
    /\ UNCHANGED <<mode, commitFlag, attempts, outcome, result>>
    /\ UNCHANGED <<sessVars, worldVars>>
    /\ UNCHANGED <<invocations, entered, removed, scopeLog, txnEnq, sessEnq,
                   doomed, attemptIds, workCommits, scopeCommits>>
    /\ conflicts' = IF e = Conflict THEN conflicts + 1 ELSE conflicts
    /\ UNCHANGED <<rollbackFailed>>
    /\ UNCHANGED thrVars
    \* the exception unwinds func and commit(): their locals are gone
    /\ ret' = "scope"
    /\ pubIdx' = 1
    /\ commitFrom' = "idle"
    /\ commitPub' = <<>>
    /\ pending' = None
    /\ workResult' = None
    /\ workRolledBack' = FALSE
    /\ UNCHANGED obs3Vars


\* --------------------------------------------- session.commit and its hook
\* The database commits; the after_commit listener starts its for loop.
CommitDbOK ==
    /\ pc = "commit_db"
    /\ txn' = "committed"
    /\ pubIdx' = 1
    /\ commitPub' = <<>>
    /\ sessEnq' = {}
    /\ pc' = "publish"
    /\ UNCHANGED <<mode, commitFlag, attempts, ret, exc, pending, outcome,
                   result>>
    /\ UNCHANGED <<hasOutbox, outbox, isolation, worldVars>>
    /\ UNCHANGED <<invocations, entered, removed, scopeLog, logged, origExc,
                   txnEnq, commitFrom, doomed, attemptIds, workCommits, scopeCommits, fatalAt, workResult>>
    /\ UNCHANGED obs2Vars
    /\ UNCHANGED thrVars
    /\ UNCHANGED obs3Vars

\* The database refuses the commit of a transaction that has a connection:
\* session.commit() raises e, in func when func asked for the commit.
CommitDbFail(e) ==
    /\ pc = "commit_db"
    /\ txn = "active"
    /\ exc' = e
    /\ fatalAt' = IF ret = "work" /\ e # Conflict THEN invocations ELSE fatalAt
    /\ origExc' = e
    /\ ScopeExcept(e)
    /\ UNCHANGED <<mode, commitFlag, attempts, outcome, result>>
    /\ UNCHANGED <<sessVars, worldVars>>
    /\ UNCHANGED <<invocations, entered, removed, scopeLog, txnEnq, sessEnq,
                   doomed, attemptIds, workCommits, scopeCommits>>
    /\ conflicts' = IF e = Conflict THEN conflicts + 1 ELSE conflicts
    /\ UNCHANGED <<rollbackFailed>>
    /\ UNCHANGED thrVars
    \* the exception unwinds func and commit(): their locals are gone
    /\ ret' = "scope"
    /\ pubIdx' = 1
    /\ commitFrom' = "idle"
    /\ commitPub' = <<>>
    /\ pending' = None
    /\ workResult' = None
    /\ workRolledBack' = FALSE
    /\ UNCHANGED obs3Vars

\* The sequence after_commit iterates over.
PublishTarget == OutboxOrEmpty(hasOutbox, outbox)

\* redis.publish(channel, message) for the next pair of the loop.
PublishOK ==
    /\ pc = "publish"
    /\ pubIdx <= Len(PublishTarget)
    /\ published' = Append(published, PublishTarget[pubIdx])
    /\ commitPub' = Append(commitPub, PublishTarget[pubIdx])
    /\ pubIdx' = pubIdx + 1
    /\ UNCHANGED <<pc, mode, commitFlag, attempts, ret, exc, pending, outcome,
                   result>>
    /\ UNCHANGED <<sessVars, nextId>>
    /\ UNCHANGED <<invocations, entered, removed, scopeLog, logged, origExc,
                   txnEnq, sessEnq, commitFrom, doomed, attemptIds, workCommits, scopeCommits, fatalAt, workResult>>
    /\ UNCHANGED obs2Vars
    /\ UNCHANGED thrVars
    /\ UNCHANGED obs3Vars

\* redis.publish raises: the exception leaves after_commit and commit().
PublishFail ==
    /\ pc = "publish"
    /\ pubIdx <= Len(PublishTarget)
    /\ exc' = PublishError
    /\ fatalAt' = IF ret = "work" THEN invocations ELSE fatalAt
    /\ origExc' = PublishError
    /\ ScopeExcept(PublishError)
    /\ UNCHANGED <<mode, commitFlag, attempts, outcome, result>>
    /\ UNCHANGED <<sessVars, worldVars>>
    /\ UNCHANGED <<invocations, entered, removed, scopeLog, txnEnq, sessEnq,
                   doomed, attemptIds, workCommits, scopeCommits>>
    /\ UNCHANGED <<conflicts, rollbackFailed>>
    /\ UNCHANGED thrVars
    \* the exception unwinds func and commit(): their locals are gone
    /\ ret' = "scope"
    /\ pubIdx' = 1
    /\ commitFrom' = "idle"
    /\ commitPub' = <<>>
    /\ pending' = None
    /\ workResult' = None
    /\ workRolledBack' = FALSE
    /\ UNCHANGED obs3Vars

\* The for loop is exhausted: after_commit returns, commit() closes the
\* transaction and returns to func or to sessions_scope.
PublishDone ==
    /\ pc = "publish"
    /\ pubIdx > Len(PublishTarget)
    /\ outbox' = after_commit_outbox(outbox)
    /\ txn' = "idle"
    /\ txnEnq' = <<>>
    /\ scopeCommits' = IF ret = "scope" THEN scopeCommits + 1 ELSE scopeCommits
    /\ pc' = IF ret = "work" THEN "work" ELSE "scope_finally"
    /\ UNCHANGED <<mode, commitFlag, attempts, ret, pubIdx, exc, pending,
                   outcome, result>>
    /\ UNCHANGED <<hasOutbox, isolation, worldVars>>
    /\ UNCHANGED <<invocations, entered, removed, scopeLog, logged, origExc,
                   sessEnq, commitFrom, commitPub, doomed, attemptIds,
                   workCommits, fatalAt, workResult>>
    /\ UNCHANGED obs2Vars
    /\ UNCHANGED thrVars
    /\ UNCHANGED obs3Vars

\* ------------------------------------------- sessions_scope, leaving it
\* (variant: the error is dropped once rollback() has returned)
AfterRollbackOK_Swallow(e) == NoExc

\* The exception that leaves the except clause when rollback() returned
\* (raise e) and when rollback() raised r.
AfterRollbackOK(e) == e
\* (variant: the failure of rollback() is swallowed and e re-raised)
AfterRollbackFail_Original(e, r) == e
AfterRollbackFail(e, r) == r

\* local_session.rollback() returns; raise e.
ScopeRollbackOK ==
    /\ pc = "scope_rollback"
    /\ scopeLog' = Append(scopeLog, "rollback")
    /\ RollbackEffect
    /\ exc' = AfterRollbackOK(exc)
    /\ pc' = "scope_finally"
    /\ UNCHANGED <<mode, commitFlag, attempts, ret, pubIdx, pending, outcome,
                   result>>
    /\ UNCHANGED <<isolation, worldVars>>
    /\ UNCHANGED <<invocations, entered, removed, logged, origExc, commitFrom,
                   commitPub, attemptIds, workCommits,
                   scopeCommits, fatalAt, workResult>>
    /\ UNCHANGED obs2Vars
    /\ UNCHANGED thrVars
    /\ UNCHANGED obs3Vars

\* local_session.rollback() raises: no after_soft_rollback event, and line
\* 68 is not reached.
ScopeRollbackFail ==
    /\ pc = "scope_rollback"
    /\ scopeLog' = Append(scopeLog, "rollback")
    /\ exc' = AfterRollbackFail(exc, RollbackError)
    /\ pc' = "scope_finally"
    /\ UNCHANGED <<mode, commitFlag, attempts, ret, pubIdx, pending, outcome,
                   result>>
    /\ UNCHANGED <<sessVars, worldVars>>
    /\ UNCHANGED <<invocations, entered, removed, logged, origExc, txnEnq,
                   sessEnq, commitFrom, commitPub, doomed, attemptIds,
                   workCommits, scopeCommits, fatalAt, workResult>>
    /\ rollbackFailed' = TRUE
    /\ UNCHANGED <<conflicts, workRolledBack>>
    /\ UNCHANGED thrVars
    /\ UNCHANGED obs3Vars

\* Where control goes when the with statement is left with exception e in
\* wrapper m: into the wrapper's try/except, or out to the caller.
AfterScope(m, e) ==
    IF e = NoExc THEN "done"
    ELSE IF m = "serialized" THEN "except" ELSE "done"

\* (variant: the release follows the try statement instead of being its
\* finally clause)
ReleaseRuns_OnSuccess(e) == e = NoExc

\* finally: the release runs whatever exception e is in flight.
ReleaseRuns(e) == TRUE

\* finally: local_session.remove().  The session is closed and dropped from
\* the registry; the next use of session makes a new one with an empty info.
\* Closing the session ends a transaction that is still open without commit.
ScopeFinally ==
    /\ pc = "scope_finally"
    /\ IF ReleaseRuns(exc)
       THEN /\ removed' = removed + 1
            /\ scopeLog' = Append(scopeLog, "remove")
            /\ txn' = "idle"
            /\ hasOutbox' = FALSE
            /\ outbox' = <<>>
            /\ isolation' = "default"
            /\ doomed' = doomed \cup sessEnq
            /\ sessEnq' = {}
            /\ txnEnq' = <<>>
       ELSE /\ UNCHANGED <<removed, scopeLog, sessVars, doomed, sessEnq, txnEnq>>
    /\ pc' = AfterScope(mode, exc)
    /\ outcome' = IF pc' = "done"
                  THEN (IF exc = NoExc THEN "returned" ELSE "raised")
                  ELSE outcome
    /\ result' = IF exc = NoExc THEN pending ELSE result
    /\ UNCHANGED <<mode, commitFlag, attempts, exc, pending>>
    /\ UNCHANGED <<worldVars>>
    /\ UNCHANGED <<invocations, entered, logged, origExc, attemptIds, workCommits, scopeCommits, fatalAt, workResult>>
    /\ UNCHANGED obs2Vars
    /\ UNCHANGED thrVars
    \* the locals of commit() and of the with block are gone
    /\ ret' = "scope"
    /\ pubIdx' = 1
    /\ commitFrom' = "idle"
    /\ commitPub' = <<>>
    /\ UNCHANGED obs3Vars

\* ------------------------------------------------------------------- next
Next ==
    \/ CallSerialized
    \/ CallScoped
    \/ WhileTest
    \/ ConnectOK
    \/ ConnectFail
    \/ Except
    \/ ScopeEnter
    \/ WorkQueue
    \/ WorkDbUse
    \/ WorkRollback
    \/ WorkCommit
    \/ \E v \in Results : WorkReturn(v)
    \/ \E e \in WorkErrors : WorkRaise(e)
    \/ CommitDbOK
    \/ \E e \in CommitErrors : CommitDbFail(e)
    \/ PublishOK
    \/ PublishFail
    \/ PublishDone
    \/ ScopeRollbackOK
    \/ ScopeRollbackFail
    \/ ScopeFinally

Spec == Init /\ [][Next]_vars


\* ------------------------------------------- several threads, one module
\* (variant: the module-level session is one Session object for all threads)
SessionOf_Shared(t) == 1

\* session = scoped_session(sessionmaker(...)): each thread that uses the
\* module-level session gets the Session of its own registry entry.
SessionOf(t) == t

\* The messages held by the pairs of an outbox.
Messages(ob) == {ob[i][2] : i \in 1..Len(ob)}

\* What the single-call model keeps while threads are followed.
OneCallVars == <<ctlVars, sessVars, worldVars, obsVars, obs2Vars, obs3Vars>>

\* Thread t calls queue_message with its next message <<t, n>>.
TQueue(t) ==
    LET s == SessionOf(t)
        n == threads[t].enq + 1
    IN  /\ threads[t].pc = "run"
        /\ threads[t].enq < MaxThreadEnq
        /\ registry' = [registry EXCEPT
               ![s].ob = queue_message(registry[s].has, registry[s].ob,
                                       ChannelOf(n), <<t, n>>),
               ![s].has = TRUE]
        /\ threads' = [threads EXCEPT ![t].enq = n]
        /\ UNCHANGED <<tPublished, tDiscarded>>
        /\ UNCHANGED OneCallVars

\* Thread t's first database use in a transaction: after_begin.
TBegin(t) ==
    LET s == SessionOf(t)
    IN  /\ threads[t].pc = "run"
        /\ registry[s].txn = "idle"
        /\ registry' = [registry EXCEPT
               ![s].ob = after_begin(registry[s].ob),
               ![s].has = TRUE,
               ![s].txn = "active"]
        /\ tDiscarded' = tDiscarded \cup
               ({t} \X Messages(OutboxOrEmpty(registry[s].has, registry[s].ob)))
        /\ UNCHANGED <<threads, tPublished>>
        /\ UNCHANGED OneCallVars

\* Thread t calls session.rollback(): after_soft_rollback.
TRollback(t) ==
    LET s == SessionOf(t)
    IN  /\ threads[t].pc = "run"
        /\ registry[s].txn # "committed"
        /\ registry' = [registry EXCEPT
               ![s].ob = after_soft_rollback(registry[s].ob),
               ![s].has = TRUE,
               ![s].txn = "idle"]
        /\ tDiscarded' = tDiscarded \cup
               ({t} \X Messages(OutboxOrEmpty(registry[s].has, registry[s].ob)))
        /\ threads' = [threads EXCEPT ![t].rb = threads[t].enq + 1]
        /\ UNCHANGED tPublished
        /\ UNCHANGED OneCallVars

\* Thread t rolls back to a savepoint it set when its transaction began
\* (session.begin_nested() ... session.rollback()): after_soft_rollback
\* runs and the enclosing transaction stays active.
TSoftRollback(t) ==
    LET s == SessionOf(t)
    IN  /\ threads[t].pc = "run"
        /\ registry[s].txn = "active"
        /\ registry' = [registry EXCEPT
               ![s].ob = after_soft_rollback(registry[s].ob),
               ![s].has = TRUE]
        /\ tDiscarded' = tDiscarded \cup
               ({t} \X Messages(OutboxOrEmpty(registry[s].has, registry[s].ob)))
        /\ threads' = [threads EXCEPT ![t].rb = threads[t].enq + 1]
        /\ UNCHANGED tPublished
        /\ UNCHANGED OneCallVars

\* Thread t calls session.commit(): the database commits and after_commit
\* starts its for loop over the outbox of the session that committed.
TCommit(t) ==
    LET s == SessionOf(t)
    IN  /\ threads[t].pc = "run"
        /\ registry[s].txn # "committed"
        /\ threads[t].commits < MaxThreadCommits
        /\ registry' = [registry EXCEPT ![s].txn = "committed"]
        /\ threads' = [threads EXCEPT ![t].pc = "publish",
                                      ![t].idx = 1,
                                      ![t].commits = @ + 1,
                                      ![t].pubs = <<>>]
        /\ UNCHANGED <<tPublished, tDiscarded>>
        /\ UNCHANGED OneCallVars

\* redis.publish(channel, message) for the next pair of thread t's loop.
TPublish(t) ==
    LET s == SessionOf(t)
        ob == OutboxOrEmpty(registry[s].has, registry[s].ob)
    IN  /\ threads[t].pc = "publish"
        /\ threads[t].idx <= Len(ob)
        /\ tPublished' = tPublished \cup {<<t, ob[threads[t].idx][2]>>}
        /\ threads' = [threads EXCEPT
               ![t].idx = @ + 1,
               ![t].pubs = Append(@, ob[threads[t].idx][2])]
        /\ UNCHANGED <<registry, tDiscarded>>
        /\ UNCHANGED OneCallVars

\* Thread t's for loop is exhausted: commit() returns.
TPublishDone(t) ==
    LET s == SessionOf(t)
        ob == OutboxOrEmpty(registry[s].has, registry[s].ob)
    IN  /\ threads[t].pc = "publish"
        /\ threads[t].idx > Len(ob)
        /\ registry' = [registry EXCEPT
               ![s].ob = after_commit_outbox(registry[s].ob),
               ![s].txn = "idle"]
        /\ threads' = [threads EXCEPT ![t].pc = "run", ![t].idx = 0]
        /\ UNCHANGED <<tPublished, tDiscarded>>
        /\ UNCHANGED OneCallVars

\* Thread t leaves sessions_scope: local_session.remove() drops the session
\* of its registry entry.
TRemove(t) ==
    LET s == SessionOf(t)
    IN  /\ threads[t].pc = "run"
        /\ registry[s].has
        /\ registry' = [registry EXCEPT
               ![s] = [has |-> FALSE, ob |-> <<>>, txn |-> "idle"]]
        /\ tDiscarded' = tDiscarded \cup ({t} \X Messages(registry[s].ob))
        /\ threads' = [threads EXCEPT ![t].rb = 0, ![t].pubs = <<>>]
        /\ UNCHANGED tPublished
        /\ UNCHANGED OneCallVars

\* Threads interleave at the grain of one listener call or one publish call.
NextThreads ==
    \E t \in Threads :
        \/ TQueue(t)
        \/ TBegin(t)
        \/ TRollback(t)
        \/ TSoftRollback(t)
        \/ TCommit(t)
        \/ TPublish(t)
        \/ TPublishDone(t)
        \/ TRemove(t)

\* Several threads use the module-level session; no wrapper call is in
\* progress in the single-call part of the state.
SpecThreads == Init /\ [][NextThreads]_vars

\* ----------------------------------------------------------------- claims
InLog(ev) == \E i \in 1..Len(scopeLog) : scopeLog[i] = ev
LogIndex(ev) == CHOOSE i \in 1..Len(scopeLog) : scopeLog[i] = ev
Count(ev) == Cardinality({i \in 1..Len(scopeLog) : scopeLog[i] = ev})
Prefix(q, n) == SubSeq(q, 1, n)
\* Control is inside a sessions_scope: entered and not yet released.
InScope == pc \in {"work", "commit_db", "publish",
                   "scope_rollback", "scope_finally"}
\* Control has left the scope (it is in the wrapper or back at the caller).
LeftScope == pc \in {"except", "loop", "connect", "scope_enter", "done"}

\* C1: while a commit of a transaction that had begun (after_begin fired)
\* publishes, the publish calls it has made are the first pairs enqueued in
\* that transaction, in enqueue order and once each; when its loop is
\* exhausted they are exactly all the pairs enqueued in the transaction.
C1_CommitPublishesEnqueued ==
    (pc = "publish" /\ commitFrom = "active") =>
        /\ pubIdx - 1 <= Len(txnEnq)
        /\ commitPub = Prefix(txnEnq, pubIdx - 1)
        /\ (pubIdx > Len(PublishTarget) => commitPub = txnEnq)

\* C1 witness: a commit has published both pairs of a transaction that
\* enqueued two.
C1_Witness ==
    /\ pc = "publish"
    /\ commitFrom = "active"
    /\ pubIdx > Len(PublishTarget)
    /\ Len(txnEnq) = 2
    /\ commitPub = txnEnq

\* C2: no payload enqueued in a transaction that ended rolled back (by
\* session.rollback(), by the rollback of sessions_scope after an error, or
\* by the release of a transaction left open) is ever published, and no
\* payload is published while the transaction it was enqueued in is still
\* open: redis.publish runs only after the database commit.
C2_RolledBackNeverPublished ==
    /\ Payloads(published) \cap doomed = {}
    /\ Payloads(published) \cap sessEnq = {}
    /\ (pc = "publish" => txn = "committed")

\* C2 witness: the unit of work enqueued, raised an error inside the scope,
\* the scope rolled back, and the call ended with that error.
C2_Witness ==
    /\ pc = "done"
    /\ outcome = "raised"
    /\ InLog("rollback")
    /\ ~rollbackFailed
    /\ attemptIds # {}
    /\ attemptIds \subseteq doomed

\* C3: when a serialized function that only enqueues (it neither commits
\* nor rolls back itself) commits after k attempts failed, what has been
\* published in total is what its last invocation enqueued, once each:
\* nothing enqueued by a failed attempt was published.
C3_FailedAttemptsPublishNothing ==
    (/\ pc = "done"
     /\ mode = "serialized"
     /\ outcome = "returned"
     /\ scopeCommits = 1
     /\ workCommits = 0
     /\ ~workRolledBack) =>
        /\ Payloads(published) = attemptIds
        /\ Len(published) = Cardinality(attemptIds)

\* C3 witness: the first attempt enqueued payload 1 and failed with a
\* conflict, the second enqueued payload 2 and committed.
C3_Witness ==
    /\ pc = "done"
    /\ mode = "serialized"
    /\ outcome = "returned"
    /\ scopeCommits = 1
    /\ workCommits = 0
    /\ conflicts = 1
    /\ attemptIds = {2}
    /\ doomed = {1}
    /\ published = << <<ChannelOf(2), 2>> >>

\* C4: a serialized call that ends with a committed attempt after k
\* conflicts (k < MaxAttempts) has invoked func k + 1 times and returns the
\* value that last invocation returned.
C4_RetryThenSuccess ==
    (pc = "done" /\ mode = "serialized" /\ scopeCommits = 1) =>
        /\ conflicts < MaxAttempts
        /\ invocations = conflicts + 1
        /\ outcome = "returned"
        /\ result = workResult
        /\ result \in Results

\* C4 witness: two conflicts, then success with value r2.
C4_Witness ==
    /\ pc = "done"
    /\ mode = "serialized"
    /\ scopeCommits = 1
    /\ conflicts = 2
    /\ invocations = 3
    /\ result = "r2"

\* C5 (as claimed): when every attempt failed with a conflict until the
\* budget reached zero, the wrapper ends by raising the budget-exhausted
\* error; it does not return normally.
C5_ExhaustionRaises ==
    (/\ pc = "done"
     /\ mode = "serialized"
     /\ conflicts = MaxAttempts
     /\ attempts = 0) => (outcome = "raised" /\ exc = BudgetExhausted)

\* C6: func is never invoked more than MaxAttempts times, and a call in
\* which every invocation ended in a conflict (no other error, no commit)
\* finishes after exactly MaxAttempts invocations.
C6_AlwaysConflictHundredCalls ==
    /\ invocations <= MaxAttempts
    /\ (/\ pc = "done"
        /\ mode = "serialized"
        /\ invocations = conflicts
        /\ exc \in {NoExc, BudgetExhausted}) => invocations = MaxAttempts

\* C6 witness: the call has finished after MaxAttempts conflicts.
C6_Witness ==
    /\ pc = "done"
    /\ mode = "serialized"
    /\ conflicts = MaxAttempts
    /\ invocations = MaxAttempts

\* C7: once an invocation of a serialized function has raised an error
\* that is not a conflict, func is not invoked again (exactly once when no
\* conflict came before), rollback() has been called by the time the error
\* leaves the scope, and the call ends by raising.
C7_NoRetryOnOtherError ==
    (mode = "serialized" /\ fatalAt # 0) =>
        /\ invocations = fatalAt
        /\ invocations = conflicts + 1
        /\ (pc \in {"scope_finally", "except", "done"} => InLog("rollback"))
        /\ (pc = "done" => outcome = "raised")

\* C7 witness: the first invocation raised a domain error and the call
\* ended with it after one invocation and a rollback.
C7_Witness ==
    /\ pc = "done"
    /\ mode = "serialized"
    /\ fatalAt = 1
    /\ invocations = 1
    /\ exc = DomainError
    /\ outcome = "raised"
    /\ InLog("rollback")

\* C8 (as claimed): when rollback() failed in sessions_scope, the error
\* that leaves the scope is the one the unit of work raised.
C8_OriginalErrorPropagates ==
    (rollbackFailed /\ pc \in {"except", "done"}) => exc = origExc

\* C8 (amended): when rollback() failed in sessions_scope, the error that
\* leaves the scope is the failure of rollback(); the error raised by the
\* unit of work is the one that was logged before the rollback.
C8_RollbackFailurePropagates ==
    (rollbackFailed /\ pc \in {"scope_finally", "except", "done"}) =>
        /\ exc = RollbackError
        /\ origExc # NoExc
        /\ logged = origExc
        /\ (pc = "done" => outcome = "raised")

\* C8 witness: a domain error, then a failed rollback, has reached the
\* caller.
C8_Witness ==
    /\ pc = "done"
    /\ rollbackFailed
    /\ origExc = DomainError
    /\ logged = DomainError
    /\ exc = RollbackError

\* C9: remove() has been called once for every scope that was left and not
\* yet for the scope control is in, whatever the exit path.
C9_ReleaseExactlyOnce ==
    /\ (InScope => removed = entered - 1 /\ Count("remove") = 0)
    /\ (~InScope => removed = entered)
    /\ (LeftScope /\ entered > 0 => Count("remove") = 1)

\* C9 witness: a scope whose rollback failed has been left and released.
C9_Witness ==
    /\ pc = "done"
    /\ rollbackFailed
    /\ entered = 1
    /\ removed = 1
    /\ scopeLog = <<"rollback", "remove">>

\* C10: when func or the requested commit raised inside the scope,
\* rollback() has been called by the time the error is out of the except
\* clause, and remove() is called after it, never before.
C10_RollbackBeforePropagation ==
    origExc # NoExc =>
        /\ (pc \in {"scope_finally", "except", "done"} => Count("rollback") = 1)
        /\ (InLog("remove") =>
               InLog("rollback") /\ LogIndex("rollback") < LogIndex("remove"))
        /\ (LeftScope => InLog("remove"))

\* C10 witness: the requested commit failed; the scope called commit,
\* rollback and remove in this order and the error is in the wrapper.
C10_Witness ==
    /\ pc = "except"
    /\ origExc = OperationalOther
    /\ scopeLog = <<"commit", "rollback", "remove">>


\* C12: after a redis.publish call of after_commit has raised, sessions_scope
\* does not call local_session.rollback().
C12_NoRollbackAfterPublishFailure ==
    origExc = PublishError => ~InLog("rollback")

\* C13: the error a call ends with is the publish error exactly when a
\* redis.publish call failed after the database commit, so the outcome tells
\* a failed delivery after a commit from every other failure.
C13_DeliveryErrorDistinct ==
    (pc = "done" /\ outcome = "raised") =>
        (origExc = PublishError <=> exc = PublishError)

\* C14: while after_commit publishes, the database commit has completed, the
\* session has not been released and the wrapper has not returned, and the
\* calls made so far are the first pairs of the outbox; when the commit of
\* sessions_scope has returned, every pair of the outbox has been published.
C14_PublishBetweenCommitAndReturn ==
    /\ pc = "publish" =>
           /\ txn = "committed"
           /\ ~InLog("remove")
           /\ outcome = "running"
           /\ commitPub = Prefix(PublishTarget, pubIdx - 1)
    /\ (pc = "scope_finally" /\ exc = NoExc /\ InLog("commit")) =>
           commitPub = PublishTarget

\* C14 witness: the commit of sessions_scope has returned after publishing
\* two pairs and the session is about to be released.
C14_Witness ==
    /\ pc = "scope_finally"
    /\ exc = NoExc
    /\ InLog("commit")
    /\ ~InLog("remove")
    /\ Len(commitPub) = 2
    /\ txn = "idle"

\* C15: no pair is published by more than one commit: the publish calls made
\* so far carry pairwise different payloads.
C15_PublishedAtMostOnce ==
    Len(published) = Cardinality(Payloads(published))

\* C16: a pair enqueued by the unit of work stays in the outbox until its
\* transaction ends by commit, rollback or release: no begin-time reset
\* erases it.
C16_NoEnqueuedErasedByBegin ==
    sessEnq \subseteq Payloads(PublishTarget)

\* C17: a call of a serialized function ends either by returning the value
\* func returned in an invocation whose commit succeeded, or by raising an
\* error that is not a serialization conflict.
C17_CallerSeesOwnOutcome ==
    (pc = "done" /\ mode = "serialized") =>
        \/ /\ outcome = "returned"
           /\ scopeCommits = 1
           /\ result = workResult
           /\ result \in Results
        \/ /\ outcome = "raised"
           /\ exc # Conflict
           /\ exc # NoExc

\* C19: when a call has ended after a redis.publish call of after_commit
\* raised, at most the pair whose publish raised is left unpublished among
\* the payloads enqueued in transactions that were not rolled back.
C19_LaterPairsStillPublished ==
    (pc = "done" /\ origExc = PublishError) =>
        Cardinality(((1..(nextId - 1)) \ doomed) \ Payloads(published)) <= 1

\* C20: when func raised an error that is not a serialization conflict and
\* the rollback of sessions_scope returned, the exception that leaves
\* sessions_scope, that reaches the except clause of serialized and that the
\* caller receives is the error func raised.
C20_ErrorUnchangedAfterRollback ==
    (/\ fatalAt # 0
     /\ fatalAt = invocations
     /\ InLog("rollback")
     /\ ~rollbackFailed
     /\ pc \in {"scope_finally", "except", "done"}) =>
        /\ exc = origExc
        /\ exc \notin {NoExc, Conflict, RollbackError, BudgetExhausted}
        /\ (pc = "done" => outcome = "raised")

\* C20 witness: a serialized call ended with the non-conflict
\* OperationalError func raised, after a rollback that returned.
C20_Witness ==
    /\ pc = "done"
    /\ mode = "serialized"
    /\ fatalAt = 1
    /\ invocations = 1
    /\ origExc = OperationalOther
    /\ exc = OperationalOther
    /\ outcome = "raised"
    /\ InLog("rollback")
    /\ ~rollbackFailed

\* C18: with several threads, every outbox of the registry holds pairs
\* enqueued by the thread it belongs to only, every message a commit
\* publishes was enqueued by the thread that commits, and every pair a
\* begin, rollback or release drops was enqueued by the thread that runs it.
C18_OutboxesNotShared ==
    /\ \A s \in Threads : \A m \in Messages(registry[s].ob) : m[1] = s
    /\ \A p \in tPublished : p[2][1] = p[1]
    /\ \A d \in tDiscarded : d[2][1] = d[1]

\* C18 witness: both threads had enqueued; thread 1 committed and published
\* its message while thread 2's outbox still holds that thread's message, and
\* thread 2 had rolled back an earlier message of its own.
C18_Witness ==
    /\ <<1, <<1, 1>>>> \in tPublished
    /\ <<2, <<2, 1>>>> \in tDiscarded
    /\ registry[2].ob = <<<<ChannelOf(2), <<2, 2>>>>>>
    /\ threads[1].pc = "publish"
    /\ registry[1].txn = "committed"
    /\ registry[2].txn = "active"

\* C11: when a thread has rolled back (session.rollback(), or a rollback to
\* a savepoint inside its transaction) and a commit of it then publishes,
\* every message that commit publishes was enqueued after the rollback, the
\* messages are published in enqueue order, and none of them is a message a
\* rollback, begin or release has dropped.
C11_OnlyPostRollbackPublished ==
    \A t \in Threads :
        (threads[t].pc = "publish" /\ threads[t].rb # 0) =>
            LET pubs == threads[t].pubs
            IN  /\ \A i \in 1..Len(pubs) :
                       pubs[i][1] = t /\ pubs[i][2] >= threads[t].rb
                /\ \A i, j \in 1..Len(pubs) : i < j => pubs[i][2] < pubs[j][2]
                /\ \A i \in 1..Len(pubs) : <<t, pubs[i]>> \notin tDiscarded

\* C11 witness: thread 1 enqueued message 1, rolled back, enqueued message
\* 2, and its commit has published message 2 alone.
C11_Witness ==
    /\ threads[1].pc = "publish"
    /\ threads[1].rb = 2
    /\ <<1, <<1, 1>>>> \in tDiscarded
    /\ registry[1].txn = "committed"
    /\ registry[1].ob = <<<<ChannelOf(2), <<1, 2>>>>>>
    /\ threads[1].idx > Len(registry[1].ob)
    /\ threads[1].pubs = <<<<1, 2>>>>

\* The last scope of a serialized call ended with a serialization conflict
\* raised by the commit of sessions_scope, and its rollback returned.
CommitConflict ==
    /\ mode = "serialized"
    /\ origExc = Conflict
    /\ InLog("commit")
    /\ InLog("rollback")
    /\ ~rollbackFailed

\* C21: after a serialization conflict raised by the commit of
\* sessions_scope (func had returned) and a rollback that returned, the
\* conflict leaves the scope and is not passed to the caller, the value func
\* returned is not returned, the payloads of the attempt are rolled back and
\* unpublished (when func made no commit of its own), and control goes back
\* to the loop with the counter decremented and the session released.
C21_CommitConflictRetried ==
    CommitConflict =>
        /\ pc \in {"scope_finally", "except", "loop", "connect", "scope_enter",
                   "done"}
        /\ pc = "scope_finally" => exc = Conflict
        /\ pc # "done" => (outcome = "running" /\ result = None)
        /\ pc = "done" => (exc # Conflict /\ result \notin Results)
        /\ workCommits = 0 =>
               /\ attemptIds \subseteq doomed
               /\ attemptIds \cap Payloads(published) = {}
        /\ pc \in {"loop", "connect", "scope_enter"} =>
               /\ attempts = MaxAttempts - conflicts
               /\ invocations = conflicts
               /\ removed = entered

\* C21 witness: func enqueued payload 1 and returned, the commit raised a
\* conflict, the scope rolled back and released the session, and the
\* wrapper is about to invoke func again.
C21_Witness ==
    /\ CommitConflict
    /\ pc = "scope_enter"
    /\ invocations = 1
    /\ attempts = MaxAttempts - 1
    /\ attemptIds = {1}
    /\ doomed = {1}
    /\ published = <<>>
    /\ scopeLog = <<"commit", "rollback", "remove">>

\* The database commit requested by the current scope of a serialized call
\* has succeeded.
ScopeDbCommitted ==
    /\ mode = "serialized"
    /\ InLog("commit")
    /\ origExc \in {NoExc, PublishError}
    /\ pc # "commit_db"

\* C22: once the database commit of an attempt's sessions_scope has
\* succeeded, control never returns to the loop of the wrapper: func is not
\* invoked again, whether after_commit publishes everything or redis.publish
\* raises, and at most one commit of sessions_scope completes per call.
C22_NoInvocationAfterCommit ==
    /\ scopeCommits <= 1
    /\ ScopeDbCommitted =>
           /\ pc \in {"publish", "scope_rollback",
                      "scope_finally", "except", "done"}
           /\ invocations = conflicts + 1
           /\ exc # Conflict
           /\ (pc = "done" /\ origExc = PublishError) => outcome = "raised"
    /\ scopeCommits = 1 => pc \in {"scope_finally", "done"}

\* C22 witness: the commit of the first attempt succeeded, redis.publish
\* raised, and the call ended with an error after one invocation of func.
C22_Witness ==
    /\ ScopeDbCommitted
    /\ origExc = PublishError
    /\ pc = "done"
    /\ outcome = "raised"
    /\ invocations = 1
    /\ scopeCommits = 0

\* C23: whenever the wrapper is between two attempts (back at the loop
\* test, at session.connection or about to invoke func again), the scope of
\* the previous attempt has rolled back, that rollback returned, and the
\* session was removed after it: every scope entered has been released, and
\* until the next connection the session has no transaction, no outbox and
\* no unfinished enqueue.
C23_AttemptsDoNotOverlap ==
    (mode = "serialized" /\ invocations > 0 /\
     pc \in {"loop", "connect", "scope_enter"}) =>
        /\ scopeLog \in {<<"rollback", "remove">>,
                         <<"commit", "rollback", "remove">>}
        /\ ~rollbackFailed
        /\ removed = entered
        /\ entered = invocations
        /\ sessEnq = {}
        /\ pc \in {"loop", "connect"} =>
               /\ txn = "idle"
               /\ ~hasOutbox
               /\ outbox = <<>>

\* C23 witness: two attempts failed with a conflict and were each rolled
\* back and released; the wrapper is about to invoke func a third time.
C23_Witness ==
    /\ mode = "serialized"
    /\ pc = "scope_enter"
    /\ invocations = 2
    /\ conflicts = 2
    /\ removed = 2
    /\ scopeLog = <<"rollback", "remove">>
    /\ doomed = {1, 2}

\* C24: when serialized is about to invoke func, on the first attempt and on
\* every retry, the session has an open transaction whose outbox is an empty
\* list, and no payload of an earlier attempt is waiting in the session.
C24_OutboxEmptyAtInvocation ==
    (mode = "serialized" /\ pc = "scope_enter") =>
        /\ txn = "active"
        /\ hasOutbox
        /\ outbox = <<>>
        /\ sessEnq = {}
        /\ txnEnq = <<>>

\* C24 witness: the first attempt enqueued payloads 1 and 2 and failed with
\* a conflict; the wrapper is about to invoke func again with an empty
\* outbox.
C24_Witness ==
    /\ mode = "serialized"
    /\ pc = "scope_enter"
    /\ invocations = 1
    /\ conflicts = 1
    /\ doomed = {1, 2}
    /\ hasOutbox
    /\ outbox = <<>>

\* C25: when serialized is about to invoke func, on every attempt, the
\* session's transaction is open at isolation level SERIALIZABLE, and while
\* control is inside the sessions_scope of a serialized call the scope's
\* commit argument is True; a scope is entered for every invocation.
C25_SerializableBeforeWork ==
    mode = "serialized" =>
        /\ pc = "scope_enter" => (txn = "active" /\ isolation = "SERIALIZABLE")
        /\ InScope => commitFlag
        /\ entered = invocations
        /\ (ret = "scope" /\ pc \in {"commit_db", "publish"}) =>
               pending \in Results

\* C25 witness: on the third attempt func runs inside a scope with
\* commit=True, in a transaction opened at SERIALIZABLE.
C25_Witness ==
    /\ mode = "serialized"
    /\ pc = "work"
    /\ invocations = 3
    /\ commitFlag
    /\ txn = "active"
    /\ isolation = "SERIALIZABLE"

\* C26: whenever the serialized wrapper is back at its loop test or has
\* ended, every session it checked out with session.connection has been
\* released by remove().
C26_SessionAlwaysReleased ==
    (mode = "serialized" /\ pc \in {"loop", "done"}) => removed = connected

\* C27: sessions_scope calls commit at most once, only when its commit
\* argument is True, as the first thing after func returned a value and
\* before any rollback or release; a scope entered by
\* scoped_session_decorator never calls it, so when such a call ends and
\* func made no commit of its own nothing has been published and every
\* payload func enqueued was discarded.
C27_ScopeCommitsOnlyOnRequest ==
    /\ Count("commit") <= 1
    /\ InLog("commit") => (commitFlag /\ scopeLog[1] = "commit")
    /\ (ret = "scope" /\ pc = "commit_db") =>
           (commitFlag /\ exc = NoExc /\ pending \in Results /\
            scopeLog = <<"commit">>)
    /\ (mode = "serialized" /\ pc = "done" /\ result \in Results) =>
           (Count("commit") = 1 /\ scopeLog = <<"commit", "remove">>)
    /\ mode = "scoped" =>
           /\ ~commitFlag
           /\ ~InLog("commit")
           /\ scopeCommits = 0
           /\ (pc = "done" /\ workCommits = 0) =>
                  /\ published = <<>>
                  /\ doomed = 1..(nextId - 1)

\* C27 witness: a function wrapped by scoped_session_decorator enqueued two
\* payloads and returned; the scope released the session without a commit
\* and nothing was published.
C27_Witness ==
    /\ mode = "scoped"
    /\ pc = "done"
    /\ outcome = "returned"
    /\ workCommits = 0
    /\ nextId = 3
    /\ doomed = {1, 2}
    /\ published = <<>>
    /\ scopeLog = <<"remove">>

\* C28: every step in which a thread calls queue_message leaves its
\* session's outbox equal to the former outbox (the empty list when the
\* session had none) with the new pair appended at the tail, and changes
\* nothing else: no transaction state, no other session, no publish and no
\* discard.
C28_QueueOnlyAppends ==
    [][\A t \in Threads :
          threads'[t].enq # threads[t].enq =>
              LET s == SessionOf(t)
                  n == threads'[t].enq
              IN  /\ registry'[s].has
                  /\ registry'[s].ob =
                         Append(OutboxOrEmpty(registry[s].has, registry[s].ob),
                                <<ChannelOf(n), <<t, n>>>>)
                  /\ registry'[s].txn = registry[s].txn
                  /\ \A u \in Threads \ {s} : registry'[u] = registry[u]
                  /\ threads' = [threads EXCEPT ![t].enq = n]
                  /\ tPublished' = tPublished
                  /\ tDiscarded' = tDiscarded]_vars

\* C28 witness: thread 1 called queue_message twice, the first time on a
\* session without an outbox; its outbox holds the two pairs in call order
\* and nothing has been published or discarded.
C28_Witness ==
    /\ threads[1].enq = 2
    /\ registry[1].has
    /\ registry[1].ob = <<<<ChannelOf(1), <<1, 1>>>>, <<ChannelOf(2), <<1, 2>>>>>>
    /\ registry[1].txn = "idle"
    /\ tPublished = {}
    /\ tDiscarded = {}

\* C29: in a serialized call the counter stays within 0..100; it is 100
\* minus the conflicts the except clause has handled, so it is decremented
\* by one for each of them and by nothing else; func has been invoked at
\* most 100 times, and the call has ended once the counter is 0 and the loop
\* test has run.
C29_CounterBounded ==
    mode = "serialized" =>
        /\ attempts \in 0..MaxAttempts
        /\ invocations <= MaxAttempts
        /\ conflicts <= MaxAttempts
        /\ attempts + conflicts \in {MaxAttempts, MaxAttempts + 1}
        /\ attempts + conflicts = MaxAttempts + 1 =>
               (exc \in {Conflict, RollbackError} /\ origExc = Conflict /\
                pc \in {"scope_rollback", "scope_finally",
                        "except", "done"})
        /\ pc \in {"loop", "connect", "scope_enter"} =>
               (attempts + conflicts = MaxAttempts /\ invocations = conflicts)
        /\ (attempts = 0 /\ exc = NoExc) => pc \in {"loop", "done"}

\* C29 witness: the hundredth conflict has been handled: the counter is 0
\* after 100 invocations and the wrapper is at its loop test.
C29_Witness ==
    /\ mode = "serialized"
    /\ pc = "loop"
    /\ attempts = 0
    /\ invocations = MaxAttempts
    /\ conflicts = MaxAttempts

====
